---- MODULE Spec2Model ----
(***************************************************************************)
(* flarequery: query text -> parseQuery -> buildExecutionPlan ->           *)
(* executeplan against a document-store adapter.                           *)
(*                                                                         *)
(* Strings are TLA+ strings; input[i] of the source (0-based) is           *)
(* CharAt(input, i).  JSON values are tagged records [t, v].               *)
(***************************************************************************)
EXTENDS Integers, Sequences, FiniteSets, TLC

(***************************************************************************)
(* Values                                                                  *)
(***************************************************************************)
JNull == [t |-> "null", v |-> ""]
JStr(s) == [t |-> "str", v |-> s]
JNum(n) == [t |-> "num", v |-> n]
JArr(a) == [t |-> "arr", v |-> a]
JObj(o) == [t |-> "obj", v |-> o]

NoError == [name |-> "none"]

Range(s) == {s[i] : i \in 1..Len(s)}

\* The properties every plain object inherits from Object.prototype whose
\* names are words of the query language.
ObjectPrototype ==
    {"constructor", "toString", "toLocaleString", "valueOf", "hasOwnProperty",
     "isPrototypeOf", "propertyIsEnumerable", "__proto__"}

Inherited(name) == [t |-> "inherited", v |-> name]

\* name in object
hasProperty(object, name) == name \in DOMAIN object \cup ObjectPrototype

\* object[name]; JNull stands for undefined.
property(object, name) ==
    IF name \in DOMAIN object THEN object[name]
    ELSE IF name \in ObjectPrototype THEN Inherited(name)
    ELSE JNull

(***************************************************************************)
(* Parser: tokenize                                                        *)
(***************************************************************************)
CharAt(input, i) == SubSeq(input, i + 1, i + 1)

Whitespace == {" ", "\n", "\t", "\r", "\f"}

Letters ==
    {"a", "b", "c", "d", "e", "f", "g", "h", "i", "j", "k", "l", "m",
     "n", "o", "p", "q", "r", "s", "t", "u", "v", "w", "x", "y", "z",
     "A", "B", "C", "D", "E", "F", "G", "H", "I", "J", "K", "L", "M",
     "N", "O", "P", "Q", "R", "S", "T", "U", "V", "W", "X", "Y", "Z", "_"}

Digits == {"0", "1", "2", "3", "4", "5", "6", "7", "8", "9"}

ParseError(message, position) ==
    [name |-> "ParseError",
     message |-> "Parse error at " \o ToString(position) \o ": " \o message,
     position |-> position]

Token(kind, value, position) ==
    [kind |-> kind, value |-> value, position |-> position]

Punctuation ==
    [c \in {"{", "}", "(", ")", ":"} |->
        CASE c = "{" -> "lbrace"
          [] c = "}" -> "rbrace"
          [] c = "(" -> "lparen"
          [] c = ")" -> "rparen"
          [] c = ":" -> "colon"]

\* Whether the inner while loop of a comment, a string or a word goes on
\* over the character c.
Continues(loop, c) ==
    CASE loop = "comment" -> c # "\n"
      [] loop = "string" -> c # "\""
      [] loop = "word" -> c \in Letters \cup Digits

\* The first index from i on at which the inner while loop stops: the end of
\* the input, or a character over which the loop does not go on.
LoopEnd(input, i, loop) ==
    CHOOSE j \in i..Len(input) :
        /\ j = Len(input) \/ ~Continues(loop, CharAt(input, j))
        /\ \A k \in i..(j - 1) : Continues(loop, CharAt(input, k))

SkipComment(input, i) == LoopEnd(input, i, "comment")
ScanString(input, i) == LoopEnd(input, i, "string")
ScanWord(input, i) == LoopEnd(input, i, "word")

\* A turn of tokenize's outer loop: the index it moves to and the token it
\* pushes, or the ParseError it throws.
Turn(error, i, tokens) == [error |-> error, i |-> i, tokens |-> tokens]

stringLiteral(input, i, j) ==
    IF j >= Len(input)
    THEN Turn(ParseError("unterminated string literal", i), i, <<>>)
    ELSE Turn(NoError, j + 1, <<Token("string", SubSeq(input, i + 2, j), i)>>)

word(input, i, j) == Turn(NoError, j, <<Token("word", SubSeq(input, i + 1, j), i)>>)

tokenizeAt(input, i, c) ==
    CASE c \in Whitespace \/ c = "," -> Turn(NoError, i + 1, <<>>)
      [] c = "#" -> Turn(NoError, SkipComment(input, i), <<>>)
      [] c \in DOMAIN Punctuation -> Turn(NoError, i + 1, <<Token(Punctuation[c], c, i)>>)
      [] c = "\"" -> stringLiteral(input, i, ScanString(input, i + 1))
      [] c \in Letters -> word(input, i, ScanWord(input, i))
      [] OTHER -> Turn(ParseError("unexpected character '" \o c \o "'", i), i, <<>>)

\* The turns of the outer loop from index i while i < to, given from <= i.
\* The range from..to is halved so that the evaluation stays shallow.
RECURSIVE tokenizeFrom(_, _, _, _)

tokenizeBoth(left, right) == Turn(right.error, right.i, left.tokens \o right.tokens)

tokenizeThen(input, left, from, to) ==
    IF left.error # NoError THEN left
    ELSE tokenizeBoth(left, tokenizeFrom(input, left.i, from, to))

tokenizeFrom(input, i, from, to) ==
    IF i >= to THEN Turn(NoError, i, <<>>)
    ELSE IF to - from = 1 THEN tokenizeAt(input, i, CharAt(input, i))
    ELSE tokenizeThen(input, tokenizeFrom(input, i, from, (from + to) \div 2),
                      (from + to) \div 2, to)

tokenized(turns) ==
    IF turns.error # NoError
    THEN [error |-> turns.error, tokens |-> <<>>]
    ELSE [error |-> NoError, tokens |-> Append(turns.tokens, Token("eof", "", turns.i))]

tokenize(input) == tokenized(tokenizeFrom(input, 0, 0, Len(input)))

(***************************************************************************)
(* Parser: recursive descent.  Every method returns                        *)
(* [error, pos, value]: the thrown ParseError (or NoError), the parser's   *)
(* pos field afterwards, and the method's result.                          *)
(***************************************************************************)
Ok(pos, value) == [error |-> NoError, pos |-> pos, value |-> value]
Thrown(error, pos) == [error |-> error, pos |-> pos, value |-> JNull]

peek(tokens, pos) == tokens[pos + 1]

consume(tokens, pos, expectedKind) ==
    LET token == tokens[pos + 1] IN
    IF expectedKind # "" /\ token.kind # expectedKind
    THEN Thrown(ParseError("expected " \o expectedKind \o ", got " \o token.kind,
                           token.position), pos)
    ELSE Ok(pos + 1, token)

consumeWord(tokens, pos, expectedVal) ==
    LET r == consume(tokens, pos, "word") IN
    IF r.error # NoError THEN r
    ELSE IF expectedVal # "" /\ r.value.value # expectedVal
    THEN Thrown(ParseError("expected " \o expectedVal \o ", got " \o r.value.value,
                           r.value.position), r.pos)
    ELSE r

\* A run of parser calls: value holds the results of the calls made so far,
\* in order, and the run ends at the first call that throws.
Step(r, s) ==
    IF s.error # NoError THEN s ELSE Ok(s.pos, Append(r.value, s.value))

consumeNext(tokens, r, expectedKind) ==
    IF r.error # NoError THEN r ELSE Step(r, consume(tokens, r.pos, expectedKind))

consumeWordNext(tokens, r, expectedVal) ==
    IF r.error # NoError THEN r ELSE Step(r, consumeWord(tokens, r.pos, expectedVal))

RECURSIVE parseFieldListFrom(_, _, _)
RECURSIVE parseField(_, _)

anyFieldList(tokens, fields) == fields

\* parseFieldList 335-340
nonEmptyFieldList(tokens, fields) ==
    IF fields.error # NoError THEN fields
    ELSE IF Len(fields.value) = 0
    THEN Thrown(ParseError("selection set cannot be empty",
                           peek(tokens, fields.pos).position), fields.pos)
    ELSE fields

parseFieldList(tokens, pos) ==
    nonEmptyFieldList(tokens, parseFieldListFrom(tokens, pos, <<>>))

parseFieldListNext(tokens, r) ==
    IF r.error # NoError THEN r ELSE Step(r, parseFieldList(tokens, r.pos))

pushField(tokens, fields, f) ==
    IF f.error # NoError THEN f
    ELSE parseFieldListFrom(tokens, f.pos, Append(fields, f.value))

parseFieldListFrom(tokens, pos, fields) ==
    IF peek(tokens, pos).kind # "rbrace" /\ peek(tokens, pos).kind # "eof"
    THEN pushField(tokens, fields, parseField(tokens, pos))
    ELSE Ok(pos, fields)

\* r.value is <<nameToken, lbrace, children, rbrace>>.
fieldWithChildren(r) ==
    IF r.error # NoError THEN r
    ELSE Ok(r.pos, [name |-> r.value[1].value, children |-> r.value[3]])

\* r.value is <<nameToken>>.
fieldNamed(tokens, r) ==
    IF r.error # NoError THEN r
    ELSE IF peek(tokens, r.pos).kind = "lbrace"
    THEN fieldWithChildren(
             consumeNext(tokens,
                 parseFieldListNext(tokens, consumeNext(tokens, r, "lbrace")),
                 "rbrace"))
    ELSE Ok(r.pos, [name |-> r.value[1].value, children |-> <<>>])

parseField(tokens, pos) ==
    fieldNamed(tokens, consumeWordNext(tokens, Ok(pos, <<>>), ""))

\* r.value is <<modelToken, lparen, id, colon, idToken, rparen, lbrace,
\* selections, rbrace>>.
modelSelection(r) ==
    IF r.error # NoError THEN r
    ELSE Ok(r.pos, [model |-> r.value[1].value,
                    id |-> r.value[5].value,
                    selections |-> r.value[8]])

modelSelectionHead(tokens, pos) ==
    consumeNext(tokens,
        consumeNext(tokens,
            consumeWordNext(tokens,
                consumeNext(tokens,
                    consumeWordNext(tokens, Ok(pos, <<>>), ""),
                    "lparen"),
                "id"),
            "colon"),
        "string")

parseModelSelection(tokens, pos) ==
    modelSelection(
        consumeNext(tokens,
            parseFieldListNext(tokens,
                consumeNext(tokens,
                    consumeNext(tokens, modelSelectionHead(tokens, pos), "rparen"),
                    "lbrace")),
            "rbrace"))

parseModelSelectionNext(tokens, r) ==
    IF r.error # NoError THEN r ELSE Step(r, parseModelSelection(tokens, r.pos))

queryKeyword(tokens) ==
    IF peek(tokens, 0).kind = "word" /\ peek(tokens, 0).value = "query"
    THEN consumeNext(tokens, Ok(0, <<>>), "word")
    ELSE Ok(0, <<>>)

\* r.value ends with <<lbrace, node, rbrace>>.
endOfQuery(tokens, r) ==
    IF r.error # NoError THEN r
    ELSE IF peek(tokens, r.pos).kind # "eof"
    THEN Thrown(ParseError("expected end of query", peek(tokens, r.pos).position),
                r.pos)
    ELSE Ok(r.pos, r.value[Len(r.value) - 1])

ParserParseQuery(tokens) ==
    endOfQuery(tokens,
        consumeNext(tokens,
            parseModelSelectionNext(tokens,
                consumeNext(tokens, queryKeyword(tokens), "lbrace")),
            "rbrace"))

parseQuery(input) ==
    LET token == tokenize(input) IN
    IF token.error # NoError
    THEN Thrown(token.error, 0)
    ELSE ParserParseQuery(token.tokens)

(***************************************************************************)
(* Planner.  Every function returns the thrown PlanError (or NoError) and  *)
(* the allOps array as the call left it.                                   *)
(***************************************************************************)
PlanError(message) == [name |-> "PlanError", message |-> "PlanError: " \o message]

isRelationField(def) == "relation" \in DOMAIN def

RECURSIVE join(_, _)
join(list, sep) ==
    IF Len(list) = 0 THEN ""
    ELSE IF Len(list) = 1 THEN list[1]
    ELSE list[1] \o sep \o join(Tail(list), sep)

includes(list, e) == \E i \in 1..Len(list) : list[i] = e

\* Array.from(new Set(list)): first occurrences, in order.
ArrayFromSetKeepAll(list) == list

RECURSIVE ArrayFromSet(_)
ArrayFromSet(list) ==
    IF Len(list) = 0 THEN <<>>
    ELSE LET front == ArrayFromSet(SubSeq(list, 1, Len(list) - 1))
             last == list[Len(list)]
         IN IF includes(front, last) THEN front ELSE Append(front, last)

foreignKeysOf(dependents) == [i \in 1..Len(dependents) |-> dependents[i].foreignKey]

buildFieldMask(scalarMask, dependents) ==
    ArrayFromSet(scalarMask \o foreignKeysOf(dependents))

\* The auth rule a model carries: (ctx) => ctx.userId !== null
AuthRule(rule, ctx) == IF rule = "loggedIn" THEN ctx.userId # JNull ELSE TRUE

authDeniesNever(model, ctx) == FALSE

\* model.auth !== undefined && !model.auth(ctx)
authDenies(model, ctx) == "auth" \in DOMAIN model /\ ~AuthRule(model.auth, ctx)

\* A throw: the error and the allOps array as it was left.
Failed(e, allOps) == [error |-> e, allOps |-> allOps]

RECURSIVE resolveSelectionsFrom(_, _, _, _, _, _, _, _)
RECURSIVE planRelationField(_, _, _, _, _)

resolveSelections(selections, model, models, ctx, allOps) ==
    resolveSelectionsFrom(selections, 1, model, models, ctx, allOps, <<>>, <<>>)

\* resolveSelections 41-48: the dependent of a planned relation is pushed
\* and the loop goes on, unless planRelationField threw.
pushDependent(selections, i, model, models, ctx, scalarMask, dependents, planned) ==
    IF planned.error # NoError THEN planned
    ELSE resolveSelectionsFrom(selections, i + 1, model, models, ctx,
             planned.allOps, scalarMask, Append(dependents, planned.dependent))

resolveSelectionsFrom(selections, i, model, models, ctx, allOps, scalarMask, dependents) ==
    IF i > Len(selections)
    THEN [error |-> NoError, scalarMask |-> scalarMask,
          dependents |-> dependents, allOps |-> allOps]
    ELSE IF property(model.fields, selections[i].name) = JNull
    THEN Failed(PlanError("field '" \o selections[i].name
                          \o "' does not exist on model '" \o model.source.path \o "'"),
                allOps)
    ELSE IF isRelationField(property(model.fields, selections[i].name))
    THEN IF Len(selections[i].children) = 0
         THEN Failed(PlanError("relation field '" \o selections[i].name
                               \o "' must have a selection set"), allOps)
         ELSE pushDependent(selections, i, model, models, ctx, scalarMask, dependents,
                  planRelationField(selections[i], property(model.fields, selections[i].name),
                                    models, ctx, allOps))
    ELSE resolveSelectionsFrom(selections, i + 1, model, models, ctx, allOps,
             Append(scalarMask, selections[i].name), dependents)

\* The first child outside the allow-list, or 0.
firstDisallowed(children, allowedSelects) ==
    IF \E i \in 1..Len(children) : ~includes(allowedSelects, children[i].name)
    THEN CHOOSE i \in 1..Len(children) :
             /\ ~includes(allowedSelects, children[i].name)
             /\ \A j \in 1..(i - 1) : includes(allowedSelects, children[j].name)
    ELSE 0

allowListIgnored(selection, fieldDef) == 0

\* planRelationField 71-80: no child of the selection is outside select.
allowList(selection, fieldDef) ==
    IF "select" \in DOMAIN fieldDef
    THEN firstDisallowed(selection.children, fieldDef.select)
    ELSE 0

\* planRelationField 98-127: the operation, pushed to allOps, and the dependent.
relationOp(relation, targetModel, fieldMask, dependents) ==
    IF relation.type = "one"
    THEN [kind |-> "getOne",
          collection |-> targetModel.source.path,
          id |-> "$ref:" \o relation.from,
          fieldMask |-> fieldMask,
          dependents |-> dependents]
    ELSE [kind |-> "getMany",
          collection |-> targetModel.source.path,
          idsFrom |-> relation.from,
          fieldMask |-> fieldMask,
          dependents |-> dependents]

plannedRelation(selection, relation, op, allOps) ==
    [error |-> NoError,
     dependent |-> [fieldName |-> selection.name,
                    foreignKey |-> relation.from,
                    relationType |-> relation.type,
                    op |-> op],
     allOps |-> Append(allOps, op)]

\* planRelationField 87-127, given what the recursion into the children
\* returned or threw.
planRelationOp(selection, relation, targetModel, nested) ==
    IF nested.error # NoError THEN nested
    ELSE plannedRelation(selection, relation,
             relationOp(relation, targetModel,
                        buildFieldMask(nested.scalarMask, nested.dependents),
                        nested.dependents),
             nested.allOps)

planRelationField(selection, fieldDef, models, ctx, allOps) ==
    IF fieldDef.relation.to \notin DOMAIN models
    THEN Failed(PlanError("relation target model '" \o fieldDef.relation.to
                          \o "' is not registered"), allOps)
    ELSE IF allowList(selection, fieldDef) # 0
    THEN Failed(PlanError("field '"
                          \o selection.children[allowList(selection, fieldDef)].name
                          \o "' is not selectable through relation '" \o selection.name
                          \o "'. allowed: [" \o join(fieldDef.select, ", ") \o "]"),
                allOps)
    ELSE IF authDenies(models[fieldDef.relation.to], ctx)
    THEN Failed(PlanError("unauthorized access to relation target '"
                          \o fieldDef.relation.to \o "'"), allOps)
    ELSE planRelationOp(selection, fieldDef.relation, models[fieldDef.relation.to],
             resolveSelections(selection.children, models[fieldDef.relation.to],
                               models, ctx, allOps))

plannedRoot(op, allOps) ==
    [error |-> NoError, op |-> op, allOps |-> Append(allOps, op)]

\* planModelSelection 141-171, given what resolveSelections returned or threw.
planRootOp(model, id, sel) ==
    IF sel.error # NoError THEN sel
    ELSE plannedRoot([kind |-> "getOne",
                      collection |-> model.source.path,
                      id |-> id,
                      fieldMask |-> buildFieldMask(sel.scalarMask, sel.dependents),
                      dependents |-> sel.dependents],
                     sel.allOps)

planModelSelection(modelName, id, selections, models, ctx, allOps) ==
    IF modelName \notin DOMAIN models
    THEN Failed(PlanError("model '" \o modelName \o "' is not registered"), allOps)
    ELSE IF authDenies(models[modelName], ctx)
    THEN Failed(PlanError("unauthorized access to model '" \o modelName \o "'"), allOps)
    ELSE planRootOp(models[modelName], id,
             resolveSelections(selections, models[modelName], models, ctx, allOps))

\* error: the PlanError thrown, or NoError and then plan is the value returned;
\* allOps: the local operation list when the call ended.
planOutcome(rootOp) ==
    IF rootOp.error # NoError
    THEN [error |-> rootOp.error, plan |-> JNull, allOps |-> rootOp.allOps]
    ELSE [error |-> NoError,
          plan |-> [root |-> rootOp.op, ops |-> rootOp.allOps],
          allOps |-> rootOp.allOps]

buildExecutionPlan(queryNode, models, ctx) ==
    planOutcome(planModelSelection(queryNode.model, queryNode.id,
                                   queryNode.selections, models, ctx, <<>>))

(***************************************************************************)
(* Document store and adapter.  A store maps a collection path to its      *)
(* documents (id -> fields).  A snapshot's data() holds the masked fields  *)
(* that the record has; adapterKind "raw" is an adapter that ignores the   *)
(* mask and hands back the whole record.                                   *)
(***************************************************************************)
docExists(store, collection, id) ==
    collection \in DOMAIN store /\ id \in DOMAIN store[collection]

maskedData(raw, adapterKind, fieldMask) ==
    IF adapterKind = "raw" THEN raw
    ELSE [f \in {g \in Range(fieldMask) : hasProperty(raw, g)} |-> property(raw, f)]

adaptSnapshot(store, adapterKind, collection, id, fieldMask) ==
    IF ~docExists(store, collection, id)
    THEN [id |-> id, exists |-> FALSE, data |-> JNull]
    ELSE [id |-> id, exists |-> TRUE,
          data |-> JObj(maskedData(store[collection][id], adapterKind, fieldMask))]

adapterGetOne(store, adapterKind, call) ==
    adaptSnapshot(store, adapterKind, call.collection, call.id, call.fieldMask)

\* Promise.all: the values in the order of the promises, whatever order they
\* settled in (finished lists the indices in settling order).
promiseAllInSettlingOrder(values, finished) ==
    [i \in 1..Len(finished) |-> values[finished[i]]]

promiseAll(values, finished) == values

FIRESTORE_GETALL_LIMIT == 300

\* for (let i = 0; i < arr.length; i += size) chunks.push(arr.slice(i, i + size))
RECURSIVE chunkArrayFrom(_, _, _, _)
chunkArrayFrom(arr, size, i, chunks) ==
    IF i < Len(arr)
    THEN chunkArrayFrom(arr, size, i + size,
                        Append(chunks, SubSeq(arr, i + 1,
                                              IF i + size < Len(arr) THEN i + size
                                                                     ELSE Len(arr))))
    ELSE chunks

chunkArraySingle(arr, size) == <<arr>>

chunkArray(arr, size) == chunkArrayFrom(arr, size, 0, <<>>)

\* db.getAll(...refs, { fieldMask }): one snapshot for each ref, in the order
\* of the refs; a snapshot is named by the id of its document.
getAll(chunk) == chunk

\* chunkResults.flat()
RECURSIVE flatFrom(_, _)
flatFrom(arrays, i) ==
    IF i > Len(arrays) THEN <<>> ELSE arrays[i] \o flatFrom(arrays, i + 1)

flat(arrays) == flatFrom(arrays, 1)

\* .map((snap) => adaptSnapshot(snap, fieldMask))
adaptAll(store, adapterKind, call, snaps) ==
    [i \in 1..Len(snaps) |->
        adaptSnapshot(store, adapterKind, call.collection, snaps[i], call.fieldMask)]

\* getMany 19-29, the getAll calls having settled in the order settled.
getManyChunked(store, adapterKind, call, chunks, settled) ==
    adaptAll(store, adapterKind, call, flat(promiseAll([c \in 1..Len(chunks) |-> getAll(chunks[c])],
                                      settled)))

adapterGetMany(store, adapterKind, call) ==
    IF Len(call.ids) = 0 THEN <<>>
    ELSE getManyChunked(store, adapterKind, call,
                        chunkArray(call.ids, FIRESTORE_GETALL_LIMIT),
                        [c \in 1..Len(chunkArray(call.ids, FIRESTORE_GETALL_LIMIT)) |-> c])

(***************************************************************************)
(* Executor.  executeGetOne / executeGetMany run synchronously up to their *)
(* adapter call (Begin) and continue when the read returns.                *)
(***************************************************************************)
ExecutionError(message) ==
    [name |-> "ExecutionError", message |-> "ExecutionError: " \o message]

startsWith(s, prefix) == Len(s) >= Len(prefix) /\ SubSeq(s, 1, Len(prefix)) = prefix

slice(s, from) == SubSeq(s, from + 1, Len(s))

field(doc, name) == property(doc.v, name)

refValue(value) ==
    IF value.t # "str"
    THEN [error |-> NoError, value |-> JNull]
    ELSE [error |-> NoError, value |-> value]

resolveId(id, parentDoc) ==
    IF ~startsWith(id, "$ref:")
    THEN [error |-> NoError, value |-> JStr(id)]
    ELSE IF parentDoc = JNull
    THEN [error |-> ExecutionError("cannot resolve runtime ref '" \o id
                                   \o "' - no parent document available"),
          value |-> JNull]
    ELSE refValue(field(parentDoc, slice(id, Len("$ref:"))))

IsString(v) == v.t = "str"

stringIdsFirstOnly(rawIds) == <<SelectSeq(rawIds, IsString)[1].v>>

\* rawIds.filter(typeof v === "string")
stringIds(rawIds) ==
    LET kept == SelectSeq(rawIds, IsString) IN [i \in 1..Len(kept) |-> kept[i].v]

Throw(e) == [step |-> "throw", error |-> e]
Return(v) == [step |-> "return", value |-> v]
Await(call) == [step |-> "await", call |-> call]

getOneRead(op, id) ==
    IF id.error # NoError THEN Throw(id.error)
    ELSE IF id.value = JNull THEN Return(JNull)
    ELSE Await([fn |-> "getOne", collection |-> op.collection,
                id |-> id.value.v, fieldMask |-> op.fieldMask])

executeGetOneBegin(op, parentDoc) == getOneRead(op, resolveId(op.id, parentDoc))

getManyReadUnfiltered(op, rawIds) ==
    IF rawIds.t # "arr" THEN Return(JNull)
    ELSE IF Len(rawIds.v) = 0 THEN Return(JNull)
    ELSE Await([fn |-> "getMany", collection |-> op.collection,
                ids |-> stringIds(rawIds.v), fieldMask |-> op.fieldMask])

getManyRead(op, rawIds) ==
    IF rawIds.t # "arr" THEN Return(JNull)
    ELSE IF Len(rawIds.v) = 0 THEN Return(JNull)
    ELSE IF Len(SelectSeq(rawIds.v, IsString)) = 0 THEN Return(JNull)
    ELSE Await([fn |-> "getMany", collection |-> op.collection,
                ids |-> stringIds(rawIds.v), fieldMask |-> op.fieldMask])

executeGetManyBegin(op, parentDoc) ==
    IF parentDoc = JNull
    THEN Throw(ExecutionError("getMany op for collection '" \o op.collection
                              \o "' has no parent document"))
    ELSE getManyRead(op, field(parentDoc, op.idsFrom))

executeOpBegin(op, parentDoc) ==
    IF op.kind = "getOne"
    THEN executeGetOneBegin(op, parentDoc)
    ELSE executeGetManyBegin(op, parentDoc)

\* resolveDependents: result[fieldName] = value, in the order of dependents.
resolveDependents(dependents, values) ==
    LET lasts == {k \in 1..Len(dependents) :
                     \A l \in (k + 1)..Len(dependents) :
                         dependents[l].fieldName # dependents[k].fieldName}
    IN [n \in {dependents[k].fieldName : k \in lasts} |->
           values[CHOOSE k \in lasts : dependents[k].fieldName = n]]

copiedKeysUnmasked(op, docData) ==
    {key \in DOMAIN docData.v :
        key \notin {op.dependents[k].foreignKey : k \in 1..Len(op.dependents)}}

copiedKeysWithForeignKeys(op, docData) ==
    {key \in DOMAIN docData.v : includes(op.fieldMask, key)}

\* The keys of docData copied into the result (executeGetOne 85-91, executeGetMany 124-130).
copiedKeys(op, docData) ==
    {key \in DOMAIN docData.v :
        /\ key \notin {op.dependents[k].foreignKey : k \in 1..Len(op.dependents)}
        /\ includes(op.fieldMask, key)}

assembleResult(op, docData, values) ==
    JObj([key \in copiedKeys(op, docData) |-> docData.v[key]]
         @@ resolveDependents(op.dependents, values))

(***************************************************************************)
(* Inputs: the registered schema, the request context, the store and the   *)
(* query text.                                                              *)
(***************************************************************************)
MaxSel == 2
MaxIds == 2

ModelNames == {"Event", "User", "Org"}

scalar == [type |-> "string"]

BaseModels ==
    [Event |->
        [source |-> [path |-> "events"],
         fields |-> [title |-> scalar,
                     organizerId |-> scalar,
                     organizer |-> [relation |-> [from |-> "organizerId", to |-> "User",
                                                  type |-> "one"]],
                     participants |-> [relation |-> [from |-> "rsvpUserIds", to |-> "User",
                                                     type |-> "many"],
                                       select |-> <<"name", "org", "teams">>]]],
     User |->
        [source |-> [path |-> "users"],
         fields |-> [name |-> scalar,
                     email |-> scalar,
                     org |-> [relation |-> [from |-> "orgId", to |-> "Org",
                                            type |-> "one"]],
                     teams |-> [relation |-> [from |-> "teamIds", to |-> "Org",
                                              type |-> "many"]]]],
     Org |->
        [source |-> [path |-> "orgs"],
         fields |-> [name |-> scalar]]]

\* The schema in which exactly the models of guarded carry the auth rule.
Schema(guarded) ==
    [m \in ModelNames |->
        IF m \in guarded
        THEN [source |-> BaseModels[m].source, fields |-> BaseModels[m].fields,
              auth |-> "loggedIn"]
        ELSE BaseModels[m]]

Anonymous == [userId |-> JNull, token |-> JNull]
TestUser == [userId |-> JStr("test-user"), token |-> JNull]

IdValues == {JStr("u1"), JStr("u2"), JStr("u9"), JNum(7)}

IdArrays == UNION {[1..n -> IdValues] : n \in 0..MaxIds}

EventDoc(rsvp) ==
    [title |-> JStr("ETH Denver"), location |-> JStr("Denver, CO"),
     organizerId |-> JStr("u1"), rsvpUserIds |-> rsvp]

Without(doc, name) == [f \in DOMAIN doc \ {name} |-> doc[f]]

EventDocs ==
    {EventDoc(JArr(a)) : a \in IdArrays}
    \cup {EventDoc(JStr("u1")),
          Without(EventDoc(JArr(<<JStr("u1")>>)), "rsvpUserIds"),
          Without(EventDoc(JArr(<<JStr("u1")>>)), "organizerId"),
          [EventDoc(JArr(<<JStr("u2")>>)) EXCEPT !.organizerId = JNum(7)],
          [EventDoc(JArr(<<JStr("u2")>>)) EXCEPT !.organizerId = JStr("u9")]}

Store(event) ==
    [events |-> [e1 |-> event],
     users |-> [u1 |-> [name |-> JStr("Alice"), email |-> JStr("alice@example.com"),
                        orgId |-> JStr("o1"),
                        teamIds |-> JArr(<<JStr("o1"), JStr("o2")>>)],
                u2 |-> [name |-> JStr("Bob"), email |-> JStr("bob@example.com"),
                        orgId |-> JStr("o9")]],
     orgs |-> [o1 |-> [name |-> JStr("Acme")],
               o2 |-> [name |-> JStr("Studio B")]]]

DefaultStore == Store(EventDoc(JArr(<<JStr("u1"), JStr("u2")>>)))

Items ==
    {"title", "organizerId", "organizer{name}", "organizer{constructor}",
     "participants{name}", "participants{name org{name} teams{name}}",
     "participants{email}", "bogus"}

RootIds == {"e1", "e9", "$ref:organizerId"}

Lists == UNION {[1..n -> Items] : n \in 1..MaxSel}

Render(id, list) ==
    "query { Event(id: \"" \o id \o "\") { " \o join(list, " ") \o " } }"

Texts == {Render(id, list) : id \in RootIds, list \in Lists}

Request(text, schema, context, documents, kind) ==
    [query |-> text, models |-> schema, ctx |-> context, store |-> documents,
     adapterKind |-> kind]

\* Texts outside the grammar.  A selection set is empty, at the root or below:
EmptyItems == {"organizer { }", "participants { name org { } }", "title { }", "organizer{name} participants{}"}

EmptySelectionTexts ==
    {"query { Event(id: \"e1\") { } }", "{ Event(id: \"e1\") {} }"}
    \cup {Render("e1", <<i>>) : i \in EmptyItems}

\* A token follows the closing brace of the query:
TrailingTokens == {"title", "}", "{", "\"e1\"", ":", "(", ")", "query { }"}

TrailingTokenTexts == {Render("e1", <<"title">>) \o " " \o t : t \in TrailingTokens}

\* A missing brace, an unterminated string, a character no token starts with,
\* a missing colon, the empty text:
MalformedTexts ==
    EmptySelectionTexts \cup TrailingTokenTexts
    \cup {"query { Event(id: \"e1\") { title }",
          "query { Event(id: \"e1) { title } }",
          "query { Event(id: \"e1\") { ti-tle } }",
          "query { Event(id \"e1\") { title } }",
          ""}

\* Texts of the grammar without the query keyword, with commas and a comment.
ShorthandTexts ==
    {"{ Event(id: \"e1\") { title } }",
     "# event\n{ Event(id: \"e1\") { title, organizer { name } } } # end"}

\* A relation next to a sibling scalar or a sibling relation, against event
\* documents whose foreign key is empty, missing, or names no document.
SiblingLists ==
    {<<"title", "participants{name}">>, <<"participants{name}", "organizer{name}">>,
     <<"title", "organizer{name}">>}

AbsentEventDocs ==
    {EventDoc(JArr(<<>>)),
     Without(EventDoc(JArr(<<JStr("u1")>>)), "rsvpUserIds"),
     [EventDoc(JArr(<<JStr("u2")>>)) EXCEPT !.organizerId = JStr("u9")]}

\* Every query from an anonymous caller under every placement of the auth rule,
\* and from a signed-in caller with every model guarded; every single selection
\* against every event document; every query through an adapter that ignores
\* the mask; the sibling selections against the event documents with absent data;
\* the texts the grammar rejects and the ones written without the keyword.
Requests ==
    {Request(q, Schema(g), Anonymous, DefaultStore, "masked") :
        q \in Texts, g \in SUBSET ModelNames}
    \cup {Request(q, Schema(ModelNames), TestUser, DefaultStore, "masked") : q \in Texts}
    \cup {Request(Render("e1", <<i>>), Schema({}), TestUser, Store(e), "masked") :
            i \in Items, e \in EventDocs}
    \cup {Request(q, Schema({}), TestUser, DefaultStore, "raw") : q \in Texts}
    \cup {Request(Render("e1", l), Schema({}), TestUser, Store(e), "masked") :
            l \in SiblingLists, e \in AbsentEventDocs}
    \cup {Request(q, Schema({}), TestUser, DefaultStore, "masked") :
            q \in MalformedTexts \cup ShorthandTexts}

(***************************************************************************)
(* State                                                                   *)
(***************************************************************************)
VARIABLES
    query, models, ctx, store, adapterKind,   \* the request and its environment
    pc,             \* "request", "parsed", "planned", "executing", "done", "rejected"
    queryNode,      \* parseQuery's result
    plan,           \* buildExecutionPlan's result
    allOps,         \* buildExecutionPlan's operation list when it ended
    error,          \* the ParseError or PlanError thrown to execute's caller
    getOneCalls, getManyCalls,   \* the adapter calls made, in order
    tasks,          \* executeOp invocations, by path: <<>> is the root, p \o <<j, k>>
                    \* is dependent k of document j of p
    response,       \* executeplan's result
    run, first,     \* the request is run twice; first is the first run's outcome
    firestore       \* a getMany call inside the Firestore adapter: its chunks, the
                    \* getAll calls that have settled, in settling order, its result

vars == <<query, models, ctx, store, adapterKind, pc, queryNode, plan, allOps, error,
          getOneCalls, getManyCalls, tasks, response, run, first, firestore>>

\* What no step of execute changes.
inputs == <<query, models, ctx, store, adapterKind, firestore>>

NoCall == [pc |-> "idle", call |-> JNull, chunks |-> <<>>, settled |-> <<>>,
           result |-> <<>>]

Fresh ==
    /\ pc = "request"
    /\ queryNode = JNull
    /\ plan = JNull
    /\ allOps = <<>>
    /\ error = NoError
    /\ getOneCalls = <<>>
    /\ getManyCalls = <<>>
    /\ tasks = <<>>
    /\ response = JNull

Init ==
    /\ \E r \in Requests :
        /\ query = r.query
        /\ models = r.models
        /\ ctx = r.ctx
        /\ store = r.store
        /\ adapterKind = r.adapterKind
    /\ Fresh
    /\ run = 1
    /\ first = JNull
    /\ firestore = NoCall

(***************************************************************************)
(* createServerlessApp.execute: parse, plan, execute                       *)
(***************************************************************************)
Parsed(r) ==
    /\ pc' = IF r.error = NoError THEN "parsed" ELSE "rejected"
    /\ error' = r.error
    /\ queryNode' = r.value

Parse ==
    /\ pc = "request"
    /\ \E r \in {parseQuery(query)} : Parsed(r)
    /\ UNCHANGED <<inputs, plan, allOps, getOneCalls, getManyCalls, tasks, response,
                   run, first>>

Planned(b) ==
    /\ pc' = IF b.error = NoError THEN "planned" ELSE "rejected"
    /\ error' = b.error
    /\ plan' = b.plan
    /\ allOps' = b.allOps

Plan ==
    /\ pc = "parsed"
    /\ \E b \in {buildExecutionPlan(queryNode, models, ctx)} : Planned(b)
    /\ UNCHANGED <<inputs, queryNode, getOneCalls, getManyCalls, tasks, response,
                   run, first>>

Parent(p) == SubSeq(p, 1, Len(p) - 2)

\* An executeOp invocation that ran up to its first await (b).
Task(op, b) ==
    [op |-> op,
     st |-> CASE b.step = "await" -> "reading"
              [] b.step = "throw" -> "threw"
              [] OTHER -> "resolved",
     call |-> IF b.step = "await" THEN b.call ELSE JNull,
     docs |-> <<>>,
     finished |-> <<>>,
     value |-> JNull,
     error |-> IF b.step = "throw" THEN b.error ELSE NoError]

NewTask(op, parentDoc) == Task(op, executeOpBegin(op, parentDoc))

\* The documents whose dependents have all resolved and that are not yet in
\* finished, by index.
RECURSIVE NewlyFinished(_, _, _)
NewlyFinished(T, p, j) ==
    IF j > Len(T[p].docs) THEN <<>>
    ELSE IF /\ ~includes(T[p].finished, j)
            /\ \A k \in 1..Len(T[p].op.dependents) : T[p \o <<j, k>>].st = "resolved"
         THEN <<j>> \o NewlyFinished(T, p, j + 1)
         ELSE NewlyFinished(T, p, j + 1)

docResult(T, p, j) ==
    assembleResult(T[p].op, T[p].docs[j],
                   [k \in 1..Len(T[p].op.dependents) |-> T[p \o <<j, k>>].value])

NotNull(r) == r # JNull

firstResult(results) == results[1]

\* The value executeGetOne / executeGetMany return once every document is done.
opValue(T, p, finished) ==
    IF T[p].op.kind = "getOne"
    THEN firstResult(promiseAll([j \in 1..Len(T[p].docs) |-> docResult(T, p, j)],
                                finished))
    ELSE JArr(SelectSeq(promiseAll([j \in 1..Len(T[p].docs) |-> docResult(T, p, j)],
                                   finished),
                        NotNull))

\* Task p awaits its documents: record the ones that finished, resolve p when
\* all have, and then let p's parent continue.
RECURSIVE Settle(_, _)
RECURSIVE SettleWith(_, _, _)

SettleParent(T, p) == IF p = <<>> THEN T ELSE Settle(T, Parent(p))

Settle(T, p) == SettleWith(T, p, T[p].finished \o NewlyFinished(T, p, 1))

SettleWithAny(T, p, fin) ==
    IF Len(fin) < 1
    THEN [T EXCEPT ![p].finished = fin]
    ELSE SettleParent([T EXCEPT ![p].finished = fin,
                                ![p].st = "resolved",
                                ![p].value = opValue(T, p, fin)], p)

SettleWith(T, p, fin) ==
    IF Len(fin) < Len(T[p].docs)
    THEN [T EXCEPT ![p].finished = fin]
    ELSE SettleParent([T EXCEPT ![p].finished = fin,
                                ![p].st = "resolved",
                                ![p].value = opValue(T, p, fin)], p)

\* An executeOp of a dependent threw e: Promise.all rejects, so the await in
\* task p throws e, and so on up to executeplan.
RECURSIVE Reject(_, _, _)

RejectParent(T, p, e) == IF p = <<>> THEN T ELSE Reject(T, Parent(p), e)

Reject(T, p, e) == RejectParent([T EXCEPT ![p].st = "threw", ![p].error = e], p, e)

Threw(task) == task.st = "threw"

firstThrown(started) == SelectSeq(started, Threw)[1].error

SettleOrReject(T, p, started) ==
    IF \E i \in 1..Len(started) : Threw(started[i])
    THEN Reject(T, p, firstThrown(started))
    ELSE Settle(T, p)

caughtWithoutMessage(err) == [data |-> JNull, errors |-> <<>>]

\* executeplan 156-159: catch (err) of an ExecutionError
caught(err) == [data |-> JNull, errors |-> <<err.message>>]

\* executeplan: runs the root operation up to its adapter call, or catches
\* the ExecutionError it throws.
Begun(b) ==
    IF b.step = "throw"
    THEN /\ response' = caught(b.error)
         /\ pc' = "done"
         /\ UNCHANGED <<tasks, getOneCalls>>
    ELSE /\ tasks' = (<<>> :> Task(plan.root, b))
         /\ getOneCalls' = Append(getOneCalls, b.call)
         /\ pc' = "executing"
         /\ UNCHANGED response

Begin ==
    /\ pc = "planned"
    /\ \E b \in {executeOpBegin(plan.root, JNull)} : Begun(b)
    /\ UNCHANGED <<inputs, queryNode, plan, allOps, error, getManyCalls, run, first>>

Exists(snap) == snap.exists
IsGetOne(call) == call.fn = "getOne"
IsGetMany(call) == call.fn = "getMany"
IsReading(task) == task.st = "reading"

adapterRead(call) ==
    IF call.fn = "getOne"
    THEN <<adapterGetOne(store, adapterKind, call)>>
    ELSE adapterGetMany(store, adapterKind, call)

\* snapshots.filter((snap) => snap.exists), and each one's data()
dataOf(found) == [j \in 1..Len(found) |-> found[j].data]

foundDocs(snapshots) == dataOf(SelectSeq(snapshots, Exists))

\* Document and dependent of the i-th executeOp started for nDeps dependents.
docOf(i, nDeps) == ((i - 1) \div nDeps) + 1
depOf(i, nDeps) == ((i - 1) % nDeps) + 1

startDependentsOfFirstDocument(op, docs) ==
    [i \in 1..(Len(docs) * Len(op.dependents)) |->
        NewTask(op.dependents[depOf(i, Len(op.dependents))].op, docs[1])]

\* The dependents of every document, started in order.
startDependents(op, docs) ==
    [i \in 1..(Len(docs) * Len(op.dependents)) |->
        NewTask(op.dependents[depOf(i, Len(op.dependents))].op,
                docs[docOf(i, Len(op.dependents))])]

callsOf(reading) == [i \in 1..Len(reading) |-> reading[i].call]

issuedCalls(started) == callsOf(SelectSeq(started, IsReading))

withChildren(T, p, docs, started) ==
    [T EXCEPT ![p].st = "awaiting", ![p].docs = docs]
    @@ [q \in {p \o <<docOf(i, Len(T[p].op.dependents)), depOf(i, Len(T[p].op.dependents))>> :
                  i \in 1..Len(started)} |->
           started[(q[Len(q) - 1] - 1) * Len(T[p].op.dependents) + q[Len(q)]]]

getOneMissingAsEmpty(T, p) ==
    [T EXCEPT ![p].st = "resolved", ![p].value = JObj(<<>>)]

\* if (!snapshot.exists) return null
getOneMissing(T, p) == [T EXCEPT ![p].st = "resolved", ![p].value = JNull]

resumedEmptyAsMissing(T, p, docs, started) ==
    IF Len(docs) = 0
    THEN SettleParent(getOneMissing(T, p), p)
    ELSE SettleOrReject(withChildren(T, p, docs, started), p, started)

\* The tasks after the read of p returned docs and started was started.
resumed(T, p, docs, started) ==
    IF T[p].op.kind = "getOne" /\ Len(docs) = 0
    THEN SettleParent(getOneMissing(T, p), p)
    ELSE SettleOrReject(withChildren(T, p, docs, started), p, started)

Resumed(T, calls) ==
    /\ tasks' = T
    /\ getOneCalls' = getOneCalls \o SelectSeq(calls, IsGetOne)
    /\ getManyCalls' = getManyCalls \o SelectSeq(calls, IsGetMany)
    /\ pc' = IF T[<<>>].st \in {"resolved", "threw"} THEN "done" ELSE "executing"
    /\ response' = CASE T[<<>>].st = "resolved" -> [data |-> T[<<>>].value]
                      [] T[<<>>].st = "threw" -> caught(T[<<>>].error)
                      [] OTHER -> response

Resume(p, docs, started) ==
    \E T \in {resumed(tasks, p, docs, started)} : Resumed(T, issuedCalls(started))

\* The read of task p returns: the rest of executeGetOne / executeGetMany runs,
\* which starts every dependent of every document found.
AdapterReturn(p) ==
    /\ pc = "executing"
    /\ tasks[p].st = "reading"
    /\ \E docs \in {foundDocs(adapterRead(tasks[p].call))} :
           \E started \in {startDependents(tasks[p].op, docs)} :
               Resume(p, docs, started)
    /\ UNCHANGED <<inputs, queryNode, plan, allOps, error, run, first>>

\* The same request is made again against the unchanged store.
Again ==
    /\ pc \in {"done", "rejected"}
    /\ run = 1
    /\ run' = 2
    /\ first' = [pc |-> pc, error |-> error, response |-> response, plan |-> plan,
                 getOneCalls |-> getOneCalls, getManyCalls |-> getManyCalls]
    /\ pc' = "request"
    /\ queryNode' = JNull
    /\ plan' = JNull
    /\ allOps' = <<>>
    /\ error' = NoError
    /\ getOneCalls' = <<>>
    /\ getManyCalls' = <<>>
    /\ tasks' = <<>>
    /\ response' = JNull
    /\ UNCHANGED inputs

Next ==
    \/ Parse
    \/ Plan
    \/ Begin
    \/ \E p \in DOMAIN tasks : AdapterReturn(p)
    \/ Again

Spec == Init /\ [][Next]_vars

(***************************************************************************)
(* createFirestoreAdapter.getMany on its own: the id list is chunked, one  *)
(* getAll is issued for each chunk, the getAll calls settle in any order,  *)
(* and Promise.all hands their results on.                                 *)
(***************************************************************************)
MaxChunks == 2

\* Id lists with documents that exist (u1, u2), repeated ids and ids without a
\* document.
IdAt(i, offset) ==
    CASE (i + offset) % 5 = 0 -> "u1"
      [] (i + offset) % 5 = 1 -> "u2"
      [] OTHER -> "u" \o ToString(i)

IdLists ==
    {[i \in 1..n |-> IdAt(i, offset)] :
        n \in {0, 1, 2} \cup {k * FIRESTORE_GETALL_LIMIT + d :
                                  k \in 1..MaxChunks, d \in {0 - 1, 0, 1}},
        offset \in 0..2}

GetManyCall(ids) ==
    [pc |-> "called",
     call |-> [fn |-> "getMany", collection |-> "users", ids |-> ids,
               fieldMask |-> <<"name">>],
     chunks |-> <<>>, settled |-> <<>>, result |-> <<>>]

AdapterInit ==
    /\ \E ids \in IdLists : firestore = GetManyCall(ids)
    /\ query = Render("e1", <<"participants{name}">>)
    /\ models = Schema({})
    /\ ctx = TestUser
    /\ store = DefaultStore
    /\ adapterKind = "masked"
    /\ Fresh
    /\ run = 1
    /\ first = JNull

request == <<query, models, ctx, store, adapterKind, pc, queryNode, plan, allOps, error,
             getOneCalls, getManyCalls, tasks, response, run, first>>

\* getMany 17-27: an empty list returns at once; otherwise the chunks are made
\* and a getAll is issued for each.
GetManyBegin ==
    /\ firestore.pc = "called"
    /\ firestore' =
          IF Len(firestore.call.ids) = 0
          THEN [firestore EXCEPT !.pc = "returned", !.result = <<>>]
          ELSE [firestore EXCEPT
                   !.pc = "awaiting",
                   !.chunks = chunkArray(firestore.call.ids, FIRESTORE_GETALL_LIMIT)]
    /\ UNCHANGED request

\* The getAll of chunk c settles.
GetAllReturn(c) ==
    /\ firestore.pc = "awaiting"
    /\ ~includes(firestore.settled, c)
    /\ firestore' = [firestore EXCEPT !.settled = Append(firestore.settled, c)]
    /\ UNCHANGED request

\* getMany 21-29: every getAll has settled, Promise.all resolves.
GetManyReturn ==
    /\ firestore.pc = "awaiting"
    /\ Len(firestore.settled) = Len(firestore.chunks)
    /\ firestore' =
          [firestore EXCEPT
              !.pc = "returned",
              !.result = getManyChunked(store, adapterKind, firestore.call,
                                        firestore.chunks, firestore.settled)]
    /\ UNCHANGED request

AdapterNext ==
    \/ GetManyBegin
    \/ \E c \in 1..Len(firestore.chunks) : GetAllReturn(c)
    \/ GetManyReturn

AdapterSpec == AdapterInit /\ [][AdapterNext]_vars

(***************************************************************************)
(* What the properties speak of, read off the query and the schema.        *)
(***************************************************************************)
NoDuplicates(s) == \A i, j \in 1..Len(s) : s[i] = s[j] => i = j

NoReads == getOneCalls = <<>> /\ getManyCalls = <<>>

\* The auth rule of model m returns false for the request context.
Refuses(m) ==
    m \in DOMAIN models /\ "auth" \in DOMAIN models[m] /\ ~AuthRule(models[m].auth, ctx)

IsRelationOn(m, name) ==
    /\ m \in DOMAIN models
    /\ name \in DOMAIN models[m].fields
    /\ "relation" \in DOMAIN models[m].fields[name]

TargetOf(m, name) == models[m].fields[name].relation.to

\* The target models of the relations selected, at any depth.
RECURSIVE TargetsSelected(_, _)
TargetsSelected(selections, m) ==
    UNION {IF IsRelationOn(m, selections[i].name)
           THEN {TargetOf(m, selections[i].name)}
                \cup TargetsSelected(selections[i].children,
                                     TargetOf(m, selections[i].name))
           ELSE {} : i \in 1..Len(selections)}

ModelsReached ==
    {queryNode.model} \cup TargetsSelected(queryNode.selections, queryNode.model)

ModelOf(collection) == CHOOSE m \in DOMAIN models : models[m].source.path = collection

AbortedByAuth ==
    /\ pc = "rejected"
    /\ error.name = "PlanError"
    /\ startsWith(error.message, "PlanError: unauthorized access")

RelationsSelected(selections, m) ==
    [k \in 1..Cardinality({i \in 1..Len(selections) : IsRelationOn(m, selections[i].name)}) |->
        selections[CHOOSE i \in 1..Len(selections) :
            /\ IsRelationOn(m, selections[i].name)
            /\ Cardinality({j \in 1..i : IsRelationOn(m, selections[j].name)}) = k]]

ScalarsSelected(selections, m) ==
    {selections[i].name : i \in {j \in 1..Len(selections) :
                                    ~IsRelationOn(m, selections[j].name)}}

ForeignKeysSelected(selections, m) ==
    {models[m].fields[selections[i].name].relation.from :
        i \in {j \in 1..Len(selections) : IsRelationOn(m, selections[j].name)}}

\* The mask of op and of every operation below it is the selection's scalars
\* and foreign keys, each once.
RECURSIVE MaskIsSelection(_, _, _)
MaskIsSelection(op, selections, m) ==
    /\ Range(op.fieldMask)
         = ScalarsSelected(selections, m) \cup ForeignKeysSelected(selections, m)
    /\ NoDuplicates(op.fieldMask)
    /\ Len(op.dependents) = Len(RelationsSelected(selections, m))
    /\ \A k \in 1..Len(op.dependents) :
          MaskIsSelection(op.dependents[k].op,
                          RelationsSelected(selections, m)[k].children,
                          TargetOf(m, RelationsSelected(selections, m)[k].name))

RECURSIVE OpsBelow(_)
OpsBelow(op) ==
    {op} \cup UNION {OpsBelow(op.dependents[k].op) : k \in 1..Len(op.dependents)}

MaskOfPlannedOp(call) ==
    \E i \in 1..Len(plan.ops) :
        plan.ops[i].collection = call.collection /\ plan.ops[i].fieldMask = call.fieldMask

\* The relation branches started: dependent k of document j of task Parent(q).
Branches == DOMAIN tasks \ {<<>>}

DependentOf(q) == tasks[Parent(q)].op.dependents[q[Len(q)]]

ParentDocOf(q) == tasks[Parent(q)].docs[q[Len(q) - 1]]

StringsIn(arr) ==
    [k \in 1..Cardinality({i \in 1..Len(arr) : arr[i].t = "str"}) |->
        arr[CHOOSE i \in 1..Len(arr) :
            /\ arr[i].t = "str"
            /\ Cardinality({j \in 1..i : arr[j].t = "str"}) = k].v]

\* The string ids the fetched parent document holds for branch q.
IdsHeld(q) ==
    IF /\ DependentOf(q).foreignKey \in DOMAIN ParentDocOf(q).v
       /\ ParentDocOf(q).v[DependentOf(q).foreignKey].t = "arr"
    THEN StringsIn(ParentDocOf(q).v[DependentOf(q).foreignKey].v)
    ELSE <<>>

BatchedBranches ==
    {q \in Branches : DependentOf(q).relationType = "many" /\ Len(IdsHeld(q)) >= 1}

Reads(fn) == {q \in DOMAIN tasks : tasks[q].call # JNull /\ tasks[q].call.fn = fn}

\* The ids of ids whose document the store holds, in the order of ids.
Stored(collection, ids) ==
    [k \in 1..Cardinality({i \in 1..Len(ids) : ids[i] \in DOMAIN store[collection]}) |->
        ids[CHOOSE i \in 1..Len(ids) :
            /\ ids[i] \in DOMAIN store[collection]
            /\ Cardinality({j \in 1..i : ids[j] \in DOMAIN store[collection]}) = k]]

\* Entry i of the resolved array is the result for document id.
ResultOf(result, collection, id) ==
    /\ result.t = "obj"
    /\ \A key \in DOMAIN result.v :
          key \in DOMAIN store[collection][id]
              => result.v[key] = store[collection][id][key]

RECURSIVE OutsideAllowList(_, _)
OutsideAllowList(selections, m) ==
    \E i \in 1..Len(selections) :
        /\ IsRelationOn(m, selections[i].name)
        /\ \/ /\ "select" \in DOMAIN models[m].fields[selections[i].name]
              /\ \E c \in 1..Len(selections[i].children) :
                    selections[i].children[c].name
                        \notin Range(models[m].fields[selections[i].name].select)
           \/ OutsideAllowList(selections[i].children, TargetOf(m, selections[i].name))

RootCollection == models[queryNode.model].source.path

RootMissing == queryNode.id \notin DOMAIN store[RootCollection]

Names(selections) == {selections[i].name : i \in 1..Len(selections)}

LastNamed(selections, key) ==
    selections[CHOOSE i \in 1..Len(selections) :
        /\ selections[i].name = key
        /\ \A j \in (i + 1)..Len(selections) : selections[j].name # key]

RECURSIVE OnlySelected(_, _)
OnlySelected(value, selections) ==
    CASE value.t = "obj" ->
            \A key \in DOMAIN value.v :
                /\ key \in Names(selections)
                /\ OnlySelected(value.v[key], LastNamed(selections, key).children)
      [] value.t = "arr" ->
            \A i \in 1..Len(value.v) : OnlySelected(value.v[i], selections)
      [] OTHER -> TRUE

(***************************************************************************)
(* Properties                                                              *)
(***************************************************************************)

\* C1: when the auth rule of the root model, or of the target model of a
\* relation selected at any depth, returns false for the context, the request
\* never gets past planning and no getOne and no getMany call is made.
C1_DenialIssuesNoRead ==
    (queryNode # JNull /\ \E m \in ModelsReached : Refuses(m))
        => pc \in {"parsed", "rejected"} /\ NoReads

C1_Witness_NestedDenial ==
    /\ pc = "rejected"
    /\ error.name = "PlanError"
    /\ ~Refuses(queryNode.model)
    /\ ~Refuses("User")
    /\ Refuses("Org")
    /\ "Org" \in ModelsReached
    /\ NoReads

\* C2: in a returned plan the field mask of every operation is exactly the
\* scalars selected at its level together with the foreign keys of the
\* relations selected there, each once; and every mask handed to the adapter
\* is the mask of an operation of the plan.
C2_MaskIsSelection ==
    plan # JNull =>
        /\ MaskIsSelection(plan.root, queryNode.selections, queryNode.model)
        /\ Range(plan.ops) = OpsBelow(plan.root)
        /\ \A i \in 1..Len(getOneCalls) : MaskOfPlannedOp(getOneCalls[i])
        /\ \A i \in 1..Len(getManyCalls) : MaskOfPlannedOp(getManyCalls[i])

C2_Witness_MaskDeduplicated ==
    /\ pc = "done"
    /\ plan # JNull
    /\ Len(plan.root.fieldMask) < Len(queryNode.selections)
    /\ plan.root.dependents # <<>>
    /\ getManyCalls # <<>>

\* C3: every many relation selected, for every fetched parent document that
\* holds N >= 1 string ids for it, makes exactly one getMany call and that
\* call carries all N ids; reads are counted one per branch, never one per id.
C3_OneBatchedRead ==
    /\ \A p \in DOMAIN tasks :
          \A j \in 1..Len(tasks[p].docs) : \A k \in 1..Len(tasks[p].op.dependents) :
              p \o <<j, k>> \in DOMAIN tasks
    /\ \A q \in BatchedBranches :
          /\ tasks[q].call # JNull
          /\ tasks[q].call.fn = "getMany"
          /\ tasks[q].call.ids = IdsHeld(q)
          /\ tasks[q].call.collection = models[TargetOf(ModelOf(tasks[Parent(q)].op.collection),
                                                        DependentOf(q).fieldName)].source.path
          /\ \E i \in 1..Len(getManyCalls) : getManyCalls[i] = tasks[q].call
    /\ Len(getManyCalls) = Cardinality(BatchedBranches)
    /\ Len(getOneCalls) = Cardinality(Reads("getOne"))
    /\ \A q \in Reads("getOne") : tasks[q].op.kind = "getOne"

C3_Witness_NestedBatch ==
    /\ pc = "done"
    /\ \E q \in BatchedBranches : Len(q) = 4 /\ Len(IdsHeld(q)) = 2
    /\ \E q \in BatchedBranches : Len(q) = 2 /\ Len(IdsHeld(q)) = 2
    /\ Len(getManyCalls) = 2

\* C4: a resolved many relation lists the results of the documents that exist
\* in the order of their ids in the parent's foreign-key array, whatever order
\* the documents were finished in.
C4_ResultsInIdOrder ==
    \A q \in BatchedBranches :
        tasks[q].st = "resolved" =>
            /\ tasks[q].value.t = "arr"
            /\ Len(tasks[q].value.v) = Len(Stored(tasks[q].op.collection, IdsHeld(q)))
            /\ \A i \in 1..Len(tasks[q].value.v) :
                  ResultOf(tasks[q].value.v[i], tasks[q].op.collection,
                           Stored(tasks[q].op.collection, IdsHeld(q))[i])

C4_Witness_FinishedOutOfOrder ==
    \E q \in BatchedBranches :
        /\ tasks[q].st = "resolved"
        /\ tasks[q].finished = <<2, 1>>
        /\ Len(tasks[q].value.v) = 2
        /\ tasks[q].value.v[1] # tasks[q].value.v[2]

\* C5: a query that selects, through a relation with an allow-list, a child
\* outside the list is rejected by the planner with a PlanError before any
\* read, also when the child is a field of the target model.
C5_AllowListRejects ==
    (queryNode # JNull /\ OutsideAllowList(queryNode.selections, queryNode.model))
        => /\ pc \in {"parsed", "rejected"}
           /\ pc = "rejected" => error.name = "PlanError"
           /\ plan = JNull
           /\ NoReads

C5_Witness_FieldOfTargetRefused ==
    /\ pc = "rejected"
    /\ queryNode # JNull
    /\ \A m \in DOMAIN models : ~Refuses(m)
    /\ \E i \in 1..Len(queryNode.selections) :
          /\ queryNode.selections[i].name = "participants"
          /\ Len(queryNode.selections[i].children) > 0
          /\ queryNode.selections[i].children[1].name = "email"
    /\ "email" \in DOMAIN models["User"].fields
    /\ error = PlanError("field 'email' is not selectable through relation "
                         \o "'participants'. allowed: [name, org, teams]")

\* C6: when the root read finds no document, the response is {data: null}
\* without an errors field, after one getOne call and no getMany call.
C6_MissingRootIsNull ==
    (pc \in {"executing", "done"} /\ getOneCalls # <<>> /\ RootMissing)
        => /\ Len(getOneCalls) = 1
           /\ getManyCalls = <<>>
           /\ pc = "done" => response = [data |-> JNull]

C6_Witness_MissingRootWithRelations ==
    /\ pc = "done"
    /\ RootMissing
    /\ Len(getOneCalls) = 1
    /\ plan.root.dependents # <<>>
    /\ response = [data |-> JNull]

\* C7: every key of every result object of the response, at every depth, is
\* the name of a field selected at that level, also when the adapter hands
\* back fields the mask did not ask for.
C7_OnlySelectedKeys ==
    pc = "done" => OnlySelected(response.data, queryNode.selections)

C7_Witness_AdapterIgnoresMask ==
    /\ pc = "done"
    /\ adapterKind = "raw"
    /\ response.data.t = "obj"
    /\ "participants" \in DOMAIN response.data.v
    /\ response.data.v["participants"].t = "arr"
    /\ Len(response.data.v["participants"].v) = 2
    /\ "org" \in DOMAIN response.data.v["participants"].v[1].v

\* C8: the second run of the same request against the same store ends as the
\* first did, with the same response and the same plan; and no step of a run
\* changes the schema, the context, the store or, once built, the plan.
C8_SecondRunIdentical ==
    /\ [](run = 2 /\ pc \in {"done", "rejected"}
            => /\ pc = first.pc
               /\ response = first.response
               /\ error = first.error
               /\ plan = first.plan)
    /\ [][/\ models' = models
          /\ ctx' = ctx
          /\ store' = store
          /\ pc \in {"planned", "executing"} => plan' = plan]_vars

C8_Witness_SecondRunOtherOrder ==
    /\ run = 2
    /\ pc = "done"
    /\ response.data.t = "obj"
    /\ \E q \in DOMAIN tasks : tasks[q].finished = <<2, 1>>
    /\ response = first.response

\* C9, as stated: whenever the executor runs, the first adapter call is the
\* root getOne and its document id is the id of the query, verbatim.
C9_RootIdIsLiteral ==
    pc \in {"executing", "done"}
        => /\ getOneCalls # <<>>
           /\ getOneCalls[1].id = queryNode.id
           /\ getOneCalls[1].collection = RootCollection

C9_Witness_RootIdTakenAsRef ==
    /\ pc = "done"
    /\ startsWith(queryNode.id, "$ref:")
    /\ getOneCalls = <<>>
    /\ response.data = JNull
    /\ "errors" \in DOMAIN response

\* C10, as stated: when planning is aborted by an auth denial, no operation
\* has been constructed or appended to the operation list.
C10_NoOpAtAbort == AbortedByAuth => allOps = <<>>

\* C10, amended: no operation is ever constructed for a model that refuses
\* the context; and when planning is aborted by an auth denial no plan is
\* returned, the root operation has not been constructed and no read is made.
C10_NoOpForRefusedModel ==
    /\ \A i \in 1..Len(allOps) : ~Refuses(ModelOf(allOps[i].collection))
    /\ AbortedByAuth
          => /\ plan = JNull
             /\ \A i \in 1..Len(allOps) : allOps[i].collection # RootCollection
             /\ NoReads

C10_Witness_SiblingPlannedBeforeAbort ==
    /\ AbortedByAuth
    /\ allOps # <<>>
    /\ plan = JNull

\* The names a relation of model m may expose: the fields of its target model,
\* and of those only the ones on its allow-list when it has one.
Exposable(m, name) ==
    IF "select" \in DOMAIN models[m].fields[name]
    THEN DOMAIN models[TargetOf(m, name)].fields \cap Range(models[m].fields[name].select)
    ELSE DOMAIN models[TargetOf(m, name)].fields

RECURSIVE WithinBounds(_, _)
WithinBounds(selections, m) ==
    \A i \in 1..Len(selections) :
        IsRelationOn(m, selections[i].name)
            => /\ Names(selections[i].children) \subseteq Exposable(m, selections[i].name)
               /\ WithinBounds(selections[i].children, TargetOf(m, selections[i].name))

\* C11, as stated: in every plan returned, the names selected through a
\* relation are fields of the target model and, when the relation has an
\* allow-list, are on the allow-list.
C11_SelectedWithinBounds ==
    plan # JNull => WithinBounds(queryNode.selections, queryNode.model)

C11_Witness_InheritedNamePlanned ==
    /\ plan # JNull
    /\ "constructor" \notin DOMAIN models["User"].fields
    /\ \E i \in 1..Len(plan.ops) :
          /\ plan.ops[i].collection = "users"
          /\ includes(plan.ops[i].fieldMask, "constructor")

RECURSIVE NoRawForeignKey(_, _, _)
NoRawForeignKey(value, selections, m) ==
    CASE value.t = "obj" ->
            \A key \in DOMAIN value.v :
                /\ key \in ForeignKeysSelected(selections, m)
                      => key \in Names(selections) /\ IsRelationOn(m, key)
                /\ IsRelationOn(m, key)
                      => NoRawForeignKey(value.v[key], LastNamed(selections, key).children,
                                         TargetOf(m, key))
      [] value.t = "arr" ->
            \A i \in 1..Len(value.v) : NoRawForeignKey(value.v[i], selections, m)
      [] OTHER -> TRUE

\* C12: in the response, at every depth and for getOne and getMany results
\* alike, a key that is the foreign key of a relation selected at that level
\* is the output field of a relation selected there; a foreign key's raw value
\* is never copied, also when the foreign key was selected as a scalar.
C12_NoRawForeignKey ==
    pc = "done" => NoRawForeignKey(response.data, queryNode.selections, queryNode.model)

C12_Witness_SelectedForeignKeyDropped ==
    /\ pc = "done"
    /\ "organizerId" \in Names(queryNode.selections)
    /\ ~RootMissing
    /\ "organizerId" \in DOMAIN store["events"][queryNode.id]
    /\ response.data.t = "obj"
    /\ "organizer" \in DOMAIN response.data.v
    /\ response.data.v["organizer"] # JNull
    /\ "organizerId" \notin DOMAIN response.data.v

\* The executeOp call of branch q throws before its first await.
ThrowsAtStart(q) == executeOpBegin(tasks[q].op, ParentDocOf(q)).step = "throw"

\* C13: an ExecutionError is never thrown to the caller of execute: when the
\* root operation or a nested branch throws one, executeplan returns data =
\* null with a non-empty errors list; and a response carries errors only when
\* its data is null.
C13_ExecutionErrorCaught ==
    /\ error.name # "ExecutionError"
    /\ (pc \in {"executing", "done"} /\ executeOpBegin(plan.root, JNull).step = "throw")
          => pc = "done" /\ "errors" \in DOMAIN response
    /\ (\E q \in DOMAIN tasks : Threw(tasks[q]))
          => pc = "done" /\ "errors" \in DOMAIN response
    /\ \A q \in Branches : ThrowsAtStart(q) => Threw(tasks[q])
    /\ (response # JNull /\ "errors" \in DOMAIN response)
          => response.data = JNull /\ Len(response.errors) >= 1

C13_Witness_RootErrorCaught ==
    /\ pc = "done"
    /\ error = NoError
    /\ tasks = <<>>
    /\ response = [data |-> JNull,
                   errors |-> <<"ExecutionError: cannot resolve runtime ref "
                                \o "'$ref:organizerId' - no parent document available">>]

\* What a selection denotes against the store, read off the schema alone: the
\* scalars the document has, and for each relation the denotation of its
\* children against the documents its foreign key names, or null.
RECURSIVE Denotes(_, _, _)
RECURSIVE RelationDenotes(_, _, _)

ScalarKeys(selections, m, doc) ==
    {key \in ScalarsSelected(selections, m) \ ForeignKeysSelected(selections, m) :
        IF adapterKind = "raw" THEN key \in DOMAIN doc ELSE hasProperty(doc, key)}

RelationKeys(selections, m) ==
    {selections[i].name : i \in {j \in 1..Len(selections) :
                                    IsRelationOn(m, selections[j].name)}}

Denotes(selections, m, doc) ==
    JObj([key \in ScalarKeys(selections, m, doc) \cup RelationKeys(selections, m) |->
            IF key \in RelationKeys(selections, m)
            THEN RelationDenotes(LastNamed(selections, key), m, doc)
            ELSE property(doc, key)])

DenotesEach(children, m, ids) ==
    JArr([i \in 1..Len(ids) |->
            Denotes(children, m, store[models[m].source.path][ids[i]])])

RelationDenotes(selection, m, doc) ==
    LET relation == models[m].fields[selection.name].relation
        key == property(doc, relation.from)
        collection == models[relation.to].source.path
    IN  IF relation.type = "one"
        THEN IF key.t = "str" /\ key.v \in DOMAIN store[collection]
             THEN Denotes(selection.children, relation.to, store[collection][key.v])
             ELSE JNull
        ELSE IF key.t = "arr" /\ Len(StringsIn(key.v)) >= 1
             THEN DenotesEach(selection.children, relation.to,
                              Stored(collection, StringsIn(key.v)))
             ELSE JNull

RootDenotes ==
    IF RootMissing THEN JNull
    ELSE Denotes(queryNode.selections, queryNode.model, store[RootCollection][queryNode.id])

\* The data of branch q is absent: the document a one relation refers to does
\* not exist, or the foreign-key array of a many relation is missing or empty.
AbsentData(q) ==
    LET key == property(ParentDocOf(q).v, DependentOf(q).foreignKey) IN
    IF DependentOf(q).relationType = "one"
    THEN key.t = "str" /\ key.v \notin DOMAIN store[tasks[q].op.collection]
    ELSE key = JNull \/ key = JArr(<<>>)

\* C14: absent data fails nothing: a branch whose referenced document does not
\* exist, or whose foreign-key array is missing or empty, resolves to null
\* without an error, and the response is what the selection denotes, in which
\* every sibling's value is that of its own branch alone.
C14_AbsenceResolvesToNull ==
    /\ \A q \in Branches :
          AbsentData(q) => /\ ~Threw(tasks[q])
                           /\ tasks[q].st = "resolved" => tasks[q].value = JNull
    /\ (pc = "done" /\ ~startsWith(queryNode.id, "$ref:"))
          => response = [data |-> RootDenotes]

C14_Witness_SiblingsOfAbsentBranches ==
    /\ pc = "done"
    /\ "errors" \notin DOMAIN response
    /\ response.data.t = "obj"
    /\ "participants" \in DOMAIN response.data.v
    /\ response.data.v["participants"].t = "arr"
    /\ Len(response.data.v["participants"].v) = 2
    /\ DOMAIN response.data.v["participants"].v[1].v = {"name", "org", "teams"}
    /\ response.data.v["participants"].v[1].v["org"] # JNull
    /\ response.data.v["participants"].v[1].v["teams"] # JNull
    /\ response.data.v["participants"].v[2]
          = JObj([name |-> JStr("Bob"), org |-> JNull, teams |-> JNull])

\* C15: a request whose text does not parse or whose query does not plan is
\* rejected with the ParseError or PlanError, returns no response, and has made
\* no adapter call; a read is only ever made with the plan in hand.
C15_RejectedBeforeAnyRead ==
    /\ pc = "rejected"
          => /\ error.name \in {"ParseError", "PlanError"}
             /\ response = JNull
             /\ plan = JNull
             /\ NoReads
    /\ error # NoError => pc = "rejected"
    /\ error.name = "ParseError" => queryNode = JNull
    /\ query \in MalformedTexts => pc \in {"request", "rejected"}
    /\ (queryNode # JNull /\ "bogus" \in Names(queryNode.selections))
          => pc \in {"parsed", "rejected"}
    /\ ~NoReads => queryNode # JNull /\ plan # JNull /\ error = NoError

C15_Witness_ParseErrorRejected ==
    /\ pc = "rejected"
    /\ error.name = "ParseError"
    /\ query = "query { Event(id: \"e1\") { title }"
    /\ response = JNull
    /\ NoReads

\* C16: a text with an empty selection set, at the root or at any depth, and a
\* text with a token after the query's closing brace, fail with a ParseError;
\* every ParseError carries an offset between 0 and the length of the text.
C16_EmptyOrTrailingIsParseError ==
    /\ query \in EmptySelectionTexts \cup TrailingTokenTexts
          => /\ pc \in {"request", "rejected"}
             /\ pc = "rejected" => error.name = "ParseError"
    /\ (pc = "rejected" /\ query \in EmptySelectionTexts)
          => error = ParseError("selection set cannot be empty", error.position)
    /\ (pc = "rejected" /\ query \in TrailingTokenTexts)
          => error = ParseError("expected end of query", error.position)
    /\ error.name = "ParseError" => error.position \in 0..Len(query)
    /\ queryNode # JNull => Len(queryNode.selections) >= 1

C16_Witness_NestedEmptySelection ==
    /\ pc = "rejected"
    /\ query = Render("e1", <<"participants { name org { } }">>)
    /\ error = ParseError("selection set cannot be empty", error.position)
    /\ error.position \in 1..(Len(query) - 1)
    /\ CharAt(query, error.position) = "}"

\* The target model of a relation selected below the root refuses the context
\* while the root model admits it.
NestedDenial ==
    /\ queryNode # JNull
    /\ ~Refuses(queryNode.model)
    /\ \E m \in TargetsSelected(queryNode.selections, queryNode.model) : Refuses(m)

\* C17, as stated: a denial by the target of a nested relation removes that
\* branch only; the request is not rejected for it and the authorized
\* remainder of the query is planned and executed.
C17_DeniedBranchPruned == NestedDenial => ~AbortedByAuth

\* C17, what the planner does instead: auth rules run at plan time, before any
\* adapter call, and a denial by the target of a nested relation rejects the
\* whole request with a PlanError: no plan is returned and nothing is fetched,
\* the authorized remainder of the query included.
C17_DeniedBranchRejectsRequest ==
    /\ NestedDenial
          => /\ pc \in {"parsed", "rejected"}
             /\ pc = "rejected" => error.name = "PlanError"
             /\ plan = JNull
             /\ response = JNull
             /\ NoReads
    /\ (NestedDenial /\ AbortedByAuth)
          => \E m \in TargetsSelected(queryNode.selections, queryNode.model) :
                /\ Refuses(m)
                /\ error = PlanError("unauthorized access to relation target '"
                                     \o m \o "'")
    /\ \A i \in 1..Len(getOneCalls) : ~Refuses(ModelOf(getOneCalls[i].collection))
    /\ \A i \in 1..Len(getManyCalls) : ~Refuses(ModelOf(getManyCalls[i].collection))

C17_Witness_AuthorizedSiblingNotRun ==
    /\ NestedDenial
    /\ AbortedByAuth
    /\ Refuses("Org") /\ ~Refuses("User")
    /\ queryNode.selections[1].name = "organizer"
    /\ Len(queryNode.selections) = 2
    /\ plan = JNull
    /\ NoReads

\* The dependents of document j of task p have all completed.
DependentsDone(p, j) ==
    \A k \in 1..Len(tasks[p].op.dependents) : tasks[p \o <<j, k>>].st = "resolved"

\* C18: whatever order the reads return in, a document is finished only when
\* all its dependent relations have completed, an operation that read
\* documents returns only when all of them are finished, and the response is
\* what the selection denotes, the same for every order.
C18_FinalizedAfterDependents ==
    /\ \A p \in DOMAIN tasks :
          /\ \A i \in 1..Len(tasks[p].finished) : DependentsDone(p, tasks[p].finished[i])
          /\ NoDuplicates(tasks[p].finished)
          /\ (tasks[p].st = "resolved" /\ tasks[p].docs # <<>>)
                => Range(tasks[p].finished) = 1..Len(tasks[p].docs)
          /\ (p # <<>> /\ tasks[p].st # "resolved")
                => ~includes(tasks[Parent(p)].finished, p[Len(p) - 1])
    /\ (pc = "done" /\ tasks # <<>>)
          => /\ tasks[<<>>].st = "resolved"
             /\ response = [data |-> RootDenotes]

C18_Witness_OneDocumentStillWaiting ==
    /\ pc = "executing"
    /\ \E q \in Branches :
          /\ tasks[q].op.kind = "getMany"
          /\ tasks[q].st = "awaiting"
          /\ tasks[q].finished = <<2>>
          /\ \E k \in 1..Len(tasks[q].op.dependents) :
                tasks[q \o <<1, k>>].st = "reading"

\* What the fetched parent document holds under the foreign key of branch q.
KeyHeld(q) == property(ParentDocOf(q).v, DependentOf(q).foreignKey)

\* The foreign key of branch q cannot be used: for a one relation it is absent
\* or not a string; for a many relation it is absent, not an array, empty, or
\* an array without a string.
Unusable(q) ==
    IF DependentOf(q).relationType = "one"
    THEN KeyHeld(q).t # "str"
    ELSE KeyHeld(q).t # "arr" \/ Len(StringsIn(KeyHeld(q).v)) = 0

Below(q) == {r \in DOMAIN tasks : Len(r) > Len(q) /\ SubSeq(r, 1, Len(q)) = q}

\* C19: a branch whose foreign key cannot be used makes no adapter call and
\* resolves to null at once, with nothing started below it; every adapter call
\* made belongs to the root or to a branch with a usable key, so the call
\* counts are those of the query without the unusable branches.
C19_UnusableKeyIssuesNoRead ==
    /\ \A q \in Branches :
          Unusable(q) => /\ tasks[q].call = JNull
                         /\ tasks[q].st = "resolved"
                         /\ tasks[q].value = JNull
                         /\ Below(q) = {}
    /\ Len(getOneCalls)
          = Cardinality({q \in DOMAIN tasks :
                            /\ tasks[q].op.kind = "getOne"
                            /\ q # <<>> => ~Unusable(q)})
    /\ Len(getManyCalls)
          = Cardinality({q \in Branches :
                            tasks[q].op.kind = "getMany" /\ ~Unusable(q)})

C19_Witness_ArrayWithoutString ==
    /\ pc = "done"
    /\ \E q \in Branches :
          /\ DependentOf(q).relationType = "many"
          /\ KeyHeld(q).t = "arr"
          /\ Len(KeyHeld(q).v) = 2
          /\ Unusable(q)
    /\ Len(getOneCalls) = 1
    /\ getManyCalls = <<>>
    /\ response = [data |-> JObj([participants |-> JNull])]

\* C20: getMany splits the id list into consecutive chunks of at most 300 ids
\* whose concatenation is the list, issues one getAll for each chunk, and
\* returns one snapshot for each id, in the order of the ids, whatever order
\* the getAll calls settled in; an empty list returns an empty list and no
\* getAll is issued.
C20_ChunkedInIdOrder ==
    /\ \A c \in 1..Len(firestore.chunks) :
          /\ Len(firestore.chunks[c]) \in 1..300
          /\ \A k \in 1..Len(firestore.chunks[c]) :
                firestore.chunks[c][k] = firestore.call.ids[(c - 1) * 300 + k]
          /\ c < Len(firestore.chunks) => Len(firestore.chunks[c]) = 300
    /\ firestore.pc = "awaiting"
          => /\ Len(firestore.call.ids) >= 1
             /\ (Len(firestore.chunks) - 1) * 300 + Len(firestore.chunks[Len(firestore.chunks)])
                   = Len(firestore.call.ids)
    /\ firestore.pc = "returned"
          => /\ Len(firestore.result) = Len(firestore.call.ids)
             /\ Len(firestore.settled) = Len(firestore.chunks)
             /\ Len(firestore.call.ids) = 0 => firestore.chunks = <<>>
             /\ \A i \in 1..Len(firestore.result) :
                   /\ firestore.result[i].id = firestore.call.ids[i]
                   /\ firestore.result[i].exists
                         = (firestore.call.ids[i] \in DOMAIN store["users"])
                   /\ firestore.result[i].exists
                         => firestore.result[i].data
                              = JObj([name |-> store["users"][firestore.call.ids[i]].name])

C20_Witness_ChunksSettledOutOfOrder ==
    /\ firestore.pc = "returned"
    /\ Len(firestore.call.ids) = 601
    /\ firestore.settled = <<3, 1, 2>>
    /\ firestore.result[301].id = firestore.call.ids[301]
    /\ firestore.result[601].id = firestore.call.ids[601]
    /\ firestore.result[1].id # firestore.result[601].id

\* The branches started for the documents a batched read returned, and the
\* ones among them started for dependent k of the many relation q.
UnderMany == {r \in Branches : tasks[Parent(r)].op.kind = "getMany"}

Level(q, k) == {q \o <<j, k>> : j \in 1..Len(tasks[q].docs)}

\* The adapter call that reads branch r for its own parent document alone.
OwnCall(r) ==
    IF DependentOf(r).relationType = "one"
    THEN [fn |-> "getOne", collection |-> tasks[r].op.collection,
          id |-> KeyHeld(r).v, fieldMask |-> tasks[r].op.fieldMask]
    ELSE [fn |-> "getMany", collection |-> tasks[r].op.collection,
          ids |-> StringsIn(KeyHeld(r).v), fieldMask |-> tasks[r].op.fieldMask]

Occurrences(log, call) == Cardinality({i \in 1..Len(log) : log[i] = call})

Issued(call) ==
    Occurrences(IF call.fn = "getOne" THEN getOneCalls ELSE getManyCalls, call)

Existing(q) ==
    {i \in 1..Len(IdsHeld(q)) : docExists(store, tasks[q].op.collection, IdsHeld(q)[i])}

\* C22: a resolved many relation is null exactly when no batched read was
\* issued for it, which is exactly when the parent's array holds no string id;
\* when the array holds a string id the read was issued and the relation is a
\* list with one object for each id held whose document exists and no null
\* entry, the empty list when no such document exists.
C22_ManyNullOnlyWithoutRead ==
    \A q \in Branches :
        DependentOf(q).relationType = "many" /\ tasks[q].st = "resolved" =>
            /\ (tasks[q].value = JNull) <=> (tasks[q].call = JNull)
            /\ (tasks[q].call = JNull) <=> (Len(IdsHeld(q)) = 0)
            /\ tasks[q].call # JNull => Issued(tasks[q].call) >= 1
            /\ Len(IdsHeld(q)) >= 1 =>
                  /\ tasks[q].value.t = "arr"
                  /\ Len(tasks[q].value.v) = Cardinality(Existing(q))
                  /\ \A i \in 1..Len(tasks[q].value.v) :
                        /\ tasks[q].value.v[i] # JNull
                        /\ tasks[q].value.v[i].t = "obj"
                  /\ Existing(q) = {} => tasks[q].value = JArr(<<>>)

C22_Witness_NoDocumentExists ==
    /\ pc = "done"
    /\ \E q \in Branches :
          /\ DependentOf(q).relationType = "many"
          /\ Len(IdsHeld(q)) >= 1
          /\ Existing(q) = {}
          /\ tasks[q].value = JArr(<<>>)
    /\ Len(getManyCalls) = 1
    /\ response = [data |-> JObj([participants |-> JArr(<<>>)])]

====
